---- MODULE Spec2Model ----
(***************************************************************************)
(* Model of src/src/financial_data.py: the four dataset facades, the LIVE  *)
(* path (provider fetch, annual aggregation, compounding, rounding) and    *)
(* the FALLBACK path over the two static rate tables.                      *)
(*                                                                         *)
(* Numbers.  The program computes in IEEE doubles.  The model computes in  *)
(* exact rationals (numerator and denominator are unbounded naturals, held *)
(* as digit sequences) extended with the two non-finite doubles the code   *)
(* can produce from non-negative observations, inf and nan.  A rounded     *)
(* value is an integer count of 1/10000.  round(v, 4) is round-half-even.  *)
(***************************************************************************)
EXTENDS Integers, Sequences, FiniteSets, TLC

(***************************************************************************)
(* Unbounded naturals: little-endian sequences of digits in base Base.     *)
(***************************************************************************)
\* two decimal digits per element
Base == 10 * 10

RECURSIVE BigMulC(_, _, _)
\* b * m + c, for a natural b, a small natural m and a carry c
BigMulC(b, m, c) ==
    IF b = <<>>
    THEN IF c = 0 THEN <<>> ELSE <<c % Base>> \o BigMulC(<<>>, m, c \div Base)
    ELSE LET t == Head(b) * m + c
         IN  <<t % Base>> \o BigMulC(Tail(b), m, t \div Base)

BigMul(b, m) == BigMulC(b, m, 0)

BigOne == <<1>>

RECURSIVE BigStrip(_)
\* drop the most significant zero digits
BigStrip(b) ==
    IF b = <<>> THEN <<>>
    ELSE IF b[Len(b)] = 0 THEN BigStrip(SubSeq(b, 1, Len(b) - 1)) ELSE b

BigIsZero(b) == BigStrip(b) = <<>>

RECURSIVE BigCmpFrom(_, _, _)
\* compares two stripped naturals of equal length from digit i downwards
BigCmpFrom(a, b, i) ==
    IF i = 0 THEN 0
    ELSE IF a[i] < b[i] THEN -1
    ELSE IF a[i] > b[i] THEN 1
    ELSE BigCmpFrom(a, b, i - 1)

\* -1, 0 or 1 as a < b, a = b, a > b
BigCmp(a, b) ==
    LET x == BigStrip(a)
        y == BigStrip(b)
    IN  IF Len(x) < Len(y) THEN -1
        ELSE IF Len(x) > Len(y) THEN 1
        ELSE BigCmpFrom(x, y, Len(x))

(***************************************************************************)
(* Doubles.  A finite number is [k |-> "fin", n, d] with value n/d; a rate *)
(* and an annual mean keep n and d as integers, a compounded value keeps   *)
(* them as unbounded naturals.  [k |-> "inf"] and [k |-> "nan"] are the    *)
(* results numpy.float64 gives for x/0 (x > 0) and 0/0: a RuntimeWarning,  *)
(* not an exception.  Observations are non-negative, so -inf never occurs. *)
(***************************************************************************)
Fin(n, d) == [k |-> "fin", n |-> n, d |-> d]
Inf == [k |-> "inf", n |-> 0, d |-> 0]
Nan == [k |-> "nan", n |-> 0, d |-> 0]

\* ((curr - prev) / prev) * 100 for finite non-negative prev and curr
PctChange(prev, curr) ==
    IF prev.n = 0
    THEN IF curr.n = 0 THEN Nan ELSE Inf
    ELSE Fin((curr.n * prev.d - prev.n * curr.d) * 100, curr.d * prev.n)

BigFin(n, d) == [k |-> "fin", n |-> n, d |-> d]
BigInf == [k |-> "inf", n |-> <<>>, d |-> <<>>]
BigNan == [k |-> "nan", n |-> <<>>, d |-> <<>>]

\* the float 1.0
One == BigFin(BigOne, BigOne)

\* v * (1 + rate / 100): the factor (100 d + n) / (100 d) is never negative
Grow(v, rate) ==
    IF v.k = "nan" \/ rate.k = "nan" THEN BigNan
    ELSE IF rate.k = "inf"
         THEN IF v.k = "fin" /\ BigIsZero(v.n) THEN BigNan ELSE BigInf
    ELSE IF v.k = "inf"
         THEN IF 100 * rate.d + rate.n = 0 THEN BigNan ELSE BigInf
    ELSE BigFin(BigMul(v.n, 100 * rate.d + rate.n), BigMul(v.d, 100 * rate.d))

(***************************************************************************)
(* round(v, 4).  A rounded value is [k, q] with q the count of 1/10000.    *)
(***************************************************************************)
\* quotients are searched below 2^22, so that (2 q + 1) * digit fits TLC's integers
QLimit == 2048 * 2048

RECURSIVE Bisect(_, _, _, _)
\* the largest q in lo..hi-1 with q * d <= n, given lo * d <= n < hi * d
Bisect(lo, hi, n, d) ==
    IF hi - lo <= 1 THEN lo
    ELSE LET mid == (lo + hi) \div 2
         IN  IF BigCmp(BigMul(d, mid), n) <= 0
             THEN Bisect(mid, hi, n, d)
             ELSE Bisect(lo, mid, n, d)

RECURSIVE BigToInt(_)
BigToInt(b) == IF b = <<>> THEN 0 ELSE Head(b) + Base * BigToInt(Tail(b))

\* below Base^4, which fits TLC's integers
BigIsSmall(b) == Len(BigStrip(b)) <= 4

\* floor(n / d), for d > 0 and a quotient below QLimit
BigFloorDiv(n, d) ==
    IF BigIsSmall(n) /\ BigIsSmall(d)
    THEN BigToInt(BigStrip(n)) \div BigToInt(BigStrip(d))
    ELSE Bisect(0, QLimit, n, d)

Rnd(k, q) == [k |-> k, q |-> q]

\* round-half-even of 10000 * n / d
RoundHalfEven(n, d) ==
    LET s  == BigMul(n, 10000)
        q0 == BigFloorDiv(s, d)
        c  == BigCmp(BigMul(s, 2), BigMul(d, 2 * q0 + 1))
    IN  IF c < 0 THEN q0
        ELSE IF c > 0 THEN q0 + 1
        ELSE IF q0 % 2 = 0 THEN q0 ELSE q0 + 1

Round4(v) ==
    IF v.k = "fin" THEN Rnd("fin", RoundHalfEven(v.n, v.d)) ELSE Rnd(v.k, 0)

(***************************************************************************)
(* The compounding loop and the rounding pass, the same text at lines      *)
(* 51-57, 122-128, 160-164 and 224-230.                                    *)
(***************************************************************************)
RECURSIVE CompoundLoopRoundingEachStep(_, _)
\* the loop as it would be with round(..., 4) inside it
CompoundLoopRoundingEachStep(acc, rates) ==
    IF rates = <<>> THEN acc
    ELSE LET last == Round4(acc[Len(acc)])
             prev == IF last.k = "fin"
                     THEN BigFin(BigMul(BigOne, last.q), BigMul(BigOne, 10000))
                     ELSE acc[Len(acc)]
         IN  CompoundLoopRoundingEachStep(Append(acc, Grow(prev, Head(rates))), Tail(rates))

RECURSIVE CompoundLoop(_, _)
\* compounded_values after the loop, started from acc
CompoundLoop(acc, rates) ==
    IF rates = <<>> THEN acc
    ELSE CompoundLoop(Append(acc, Grow(acc[Len(acc)], Head(rates))), Tail(rates))

RoundAll(vals) == [i \in 1..Len(vals) |-> Round4(vals[i])]

Compound(rates) == RoundAll(CompoundLoop(<<One>>, rates))

(***************************************************************************)
(* A function's outcome: the dict it returns, or the exception it raises.  *)
(***************************************************************************)
Returned(dates, values) == [exc |-> "none", dates |-> dates, values |-> values]
Raised(e) == [exc |-> e, dates |-> <<>>, values |-> <<>>]

(***************************************************************************)
(* The static tables, rates in percent with one decimal: 24.2 is 242/10.   *)
(***************************************************************************)
sample_returns ==
    2024 :> 242 @@ 2023 :> 263 @@ 2022 :> -181 @@ 2021 :> 287 @@ 2020 :> 184 @@
    2019 :> 315 @@ 2018 :> -44 @@ 2017 :> 218 @@ 2016 :> 120 @@ 2015 :> 14 @@
    2014 :> 137 @@ 2013 :> 324 @@ 2012 :> 160 @@ 2011 :> 21 @@ 2010 :> 151 @@
    2009 :> 265 @@ 2008 :> -370 @@ 2007 :> 55 @@ 2006 :> 158 @@ 2005 :> 49 @@
    2004 :> 109 @@ 2003 :> 287

historical_inflation ==
    2024 :> 34 @@ 2023 :> 41 @@ 2022 :> 80 @@ 2021 :> 47 @@ 2020 :> 12 @@
    2019 :> 18 @@ 2018 :> 24 @@ 2017 :> 21 @@ 2016 :> 13 @@ 2015 :> 1 @@
    2014 :> 16 @@ 2013 :> 15 @@ 2012 :> 21 @@ 2011 :> 32 @@ 2010 :> 16 @@
    2009 :> -4 @@ 2008 :> 38 @@ 2007 :> 28 @@ 2006 :> 32 @@ 2005 :> 34 @@
    2004 :> 27 @@ 2003 :> 23 @@ 2002 :> 16 @@ 2001 :> 28 @@ 2000 :> 34

\* range(start, stop)
Range(start, stop) ==
    IF stop <= start THEN <<>> ELSE [i \in 1..(stop - start) |-> start + i - 1]

\* the loop as it would be over range(start_year, current_year)
TableYearsBeforeCurrent(table, start_year, current_year) ==
    LET InTable(year) == year \in DOMAIN table
    IN  SelectSeq(Range(start_year, current_year), InTable)

\* the loop "for year in range(start_year, current_year + 1): if year in table"
TableYears(table, start_year, current_year) ==
    LET InTable(year) == year \in DOMAIN table
    IN  SelectSeq(Range(start_year, current_year + 1), InTable)

TableRates(table, dates) == [i \in 1..Len(dates) |-> Fin(table[dates[i]], 10)]

\* [dates[0] - 1] + dates if dates else []
AnchoredOrEmpty(dates) == IF dates # <<>> THEN <<dates[1] - 1>> \o dates ELSE <<>>

\* the body shared by the two fallback functions, which differ in the table
FallbackSeries(table, years, current_year) ==
    LET start_year == current_year - years
        dates == TableYears(table, start_year, current_year)
        rates == TableRates(table, dates)
    IN  Returned(AnchoredOrEmpty(dates), Compound(rates))

get_sample_stock_data(years, current_year) ==
    FallbackSeries(sample_returns, years, current_year)

get_fallback_inflation_data(years, current_year) ==
    FallbackSeries(historical_inflation, years, current_year)

(***************************************************************************)
(* The provider's series: rows [year, day, v] in timestamp order, where    *)
(* (year, day) is the timestamp and v the closing price or the CPI level.  *)
(* groupby sorts the group keys; first and last are taken in row order.    *)
(***************************************************************************)
RowYears(hist) == {hist[i].year : i \in 1..Len(hist)}

RECURSIVE SortedSeq(_)
\* the years of a set in ascending order
SortedSeq(S) ==
    IF S = {} THEN <<>>
    ELSE LET m == CHOOSE x \in S : \A y \in S : x <= y
         IN  <<m>> \o SortedSeq(S \ {m})

RowsOf(hist, year) == {i \in 1..Len(hist) : hist[i].year = year}

FirstRow(hist, year) == CHOOSE i \in RowsOf(hist, year) : \A j \in RowsOf(hist, year) : i <= j
\* 'last' as it would be if it aggregated like 'first'
LastRowAsFirst(hist, year) == FirstRow(hist, year)

LastRow(hist, year) == CHOOSE i \in RowsOf(hist, year) : \A j \in RowsOf(hist, year) : j <= i

\* the return statement as it would be without the "- 1"
AnchoredResultNoStep(years_list, compounded_values) ==
    IF years_list = <<>> THEN Raised("IndexError")
    ELSE Returned(<<years_list[1]>> \o years_list, compounded_values)

\* years_list[0]: IndexError on an empty list
\* return {'dates': [years_list[0] - 1] + years_list, 'values': compounded_values}
AnchoredResult(years_list, compounded_values) ==
    IF years_list = <<>> THEN Raised("IndexError")
    ELSE Returned(<<years_list[1] - 1>> \o years_list, compounded_values)

\* years_list of get_stock_returns: annual_data.index, lines 36-49
stock_years_list(hist) == SortedSeq(RowYears(hist))

\* annual_returns of get_stock_returns, lines 41-49
annual_returns(hist) ==
    LET years_list == stock_years_list(hist)
    IN  [i \in 1..Len(years_list) |->
            PctChange(Fin(hist[FirstRow(hist, years_list[i])].v, 1),
                      Fin(hist[LastRow(hist, years_list[i])].v, 1))]

\* lines 35-62 of get_stock_returns, given the history the provider returned
StockLive(hist) ==
    AnchoredResult(stock_years_list(hist), Compound(annual_returns(hist)))

RECURSIVE SumRows(_, _)
SumRows(hist, rows) ==
    IF rows = {} THEN 0
    ELSE LET i == CHOOSE r \in rows : TRUE
         IN  hist[i].v + SumRows(hist, rows \ {i})

\* cpi_data.groupby(cpi_data.index.year).mean() at one year
AnnualMean(hist, year) == Fin(SumRows(hist, RowsOf(hist, year)), Cardinality(RowsOf(hist, year)))

\* annual_cpi.index, line 107
annual_cpi_index(cpi_data) == SortedSeq(RowYears(cpi_data))

\* years_list of get_inflation_data_from_fred: every year of annual_cpi but the first
fred_years_list(cpi_data) ==
    LET index == annual_cpi_index(cpi_data)
    IN  IF index = <<>> THEN <<>> ELSE Tail(index)

\* inflation_rates of get_inflation_data_from_fred, lines 113-120
inflation_rates(cpi_data) ==
    LET index == annual_cpi_index(cpi_data)
    IN  [i \in 1..Len(fred_years_list(cpi_data)) |->
            PctChange(AnnualMean(cpi_data, index[i]), AnnualMean(cpi_data, index[i + 1]))]

\* lines 105-133 of get_inflation_data_from_fred, given the series the provider returned
FredLive(cpi_data) ==
    AnchoredResult(fred_years_list(cpi_data), Compound(inflation_rates(cpi_data)))

(***************************************************************************)
(* end_date - timedelta(days=days): timedelta takes at most 999999999 days *)
(* and the difference must be a date of the years 1..9999, or the          *)
(* expression raises OverflowError.  The call is taken to happen on        *)
(* 1 January of the current year.                                          *)
(***************************************************************************)
\* date(year, 1, 1).toordinal()
Ordinal(year) ==
    365 * (year - 1) + (year - 1) \div 4 - (year - 1) \div 100 + (year - 1) \div 400 + 1

StartDateRaises(current_year, days) ==
    \/ days > 999999999 \/ days < -999999999
    \/ Ordinal(current_year) - days < 1
    \/ Ordinal(current_year) - days > Ordinal(10000) - 1

(***************************************************************************)
(* Inputs.                                                                 *)
(***************************************************************************)
\* the longest series a provider returns
MaxObs == 2
\* the longest ordinary horizon a caller asks for
MaxYears == 2

\* years: a negative horizon, 0..MaxYears, the default of the examples, and one no start date exists for
Horizons == ((0 - 1)..MaxYears) \cup {5, 3000}
\* datetime.now().year: by the start of the tables, at and after their end
NowYears == {2004, 2024, 2026}
Prices == {0, 1, 3}
Days == {1, 2}
PriceYearOffsets == {0, 1}
CpiYearOffsets == {0, 1, 2}

Row(year, day, v) == [year |-> year, day |-> day, v |-> v]

TimestampOrdered(s) ==
    \A i \in 1..(Len(s) - 1) :
        \/ s[i].year < s[i + 1].year
        \/ s[i].year = s[i + 1].year /\ s[i].day <= s[i + 1].day

SeriesOver(rows) ==
    {s \in UNION {[1..n -> rows] : n \in 0..MaxObs} : TimestampOrdered(s)}

\* series of daily closes, years counted back from the current year
PriceSeries == SeriesOver({Row(y, d, v) : y \in PriceYearOffsets, d \in Days, v \in Prices})
\* series of CPI levels, one timestamp per year
CpiSeries == SeriesOver({Row(y, 1, v) : y \in CpiYearOffsets, v \in Prices})

\* the series with its years made calendar years ending at current_year
Dated(s, span, current_year) ==
    [i \in 1..Len(s) |-> Row(current_year - span + s[i].year, s[i].day, s[i].v)]

(***************************************************************************)
(* State.                                                                  *)
(***************************************************************************)
VARIABLES
    now,        \* datetime.now().year
    fred,       \* whether FRED_API_KEY is set, hence whether fred is a client (lines 12-13)
    pc,         \* "idle", "fetching" (blocked in the provider call) or "returned"
    facade,     \* the facade called
    years,      \* its argument
    requests,   \* the symbols requested from a provider during this call
    hist,       \* the series the provider returned to this call, if it did
    path,       \* "live" or "fallback": which return statement produced the result
    result      \* the outcome of the call

vars == <<now, fred, pc, facade, years, requests, hist, path, result>>

EquityFacades == {"get_sp500_returns", "get_us_total_market_returns", "get_global_market_returns"}

\* the ticker each equity facade passes to get_stock_returns
Ticker(f) ==
    CASE f = "get_sp500_returns" -> "^GSPC"
      [] f = "get_us_total_market_returns" -> "VTI"
      [] f = "get_global_market_returns" -> "VT"

NoResult == Raised("pending")

Init ==
    /\ now \in NowYears
    /\ fred \in BOOLEAN
    /\ pc = "idle"
    /\ facade = "none"
    /\ years = 0
    /\ requests = <<>>
    /\ hist = <<>>
    /\ path = "none"
    /\ result = NoResult

\* the fallback function of the facade's dataset
Fallback(f, y, current_year) ==
    IF f \in EquityFacades
    THEN get_sample_stock_data(y, current_year)
    ELSE get_fallback_inflation_data(y, current_year)

\* the facade returns what the fallback function returns, or raises what it raises
ReturnFallback(f, y) ==
    /\ result' = Fallback(f, y, now)
    /\ path' = "fallback"
    /\ pc' = "returned"

\* the handler as it would be if it caught the provider's errors only
ReturnLiveUncaught(f, y, live) ==
    /\ result' = live
    /\ path' = "live"
    /\ pc' = "returned"

\* the handler as it would be if it kept the values computed before the raise
ReturnLiveOrMixed(f, y, live) ==
    IF live.exc = "none"
    THEN /\ result' = live
         /\ path' = "live"
         /\ pc' = "returned"
    ELSE /\ result' = [Fallback(f, y, now) EXCEPT !.values = Compound(<<>>)]
         /\ path' = "fallback"
         /\ pc' = "returned"

\* try: the body returned or raised; except Exception: return the fallback
ReturnLiveOrFallback(f, y, live) ==
    IF live.exc = "none"
    THEN /\ result' = live
         /\ path' = "live"
         /\ pc' = "returned"
    ELSE ReturnFallback(f, y)

\* A facade called with horizon y: its first steps, up to the provider call

\* get_stock_returns up to stock.history(...), when the window's start date exists
StockFetch(f, y) ==
    /\ ~StartDateRaises(now, y * 365)
    /\ facade' = f /\ years' = y
    /\ requests' = <<Ticker(f)>>
    /\ pc' = "fetching"
    /\ hist' = <<>>
    /\ UNCHANGED <<now, fred, path, result>>

\* get_stock_returns when line 30 raises: the handler returns the sample data
StockWindowError(f, y) ==
    /\ StartDateRaises(now, y * 365)
    /\ facade' = f /\ years' = y
    /\ requests' = <<>>
    /\ hist' = <<>>
    /\ ReturnFallback(f, y)
    /\ UNCHANGED <<now, fred>>

\* get_stock_returns(ticker, years, label), lines 28-33 and 63-66
get_stock_returns(f, y) == StockFetch(f, y) \/ StockWindowError(f, y)

get_sp500_returns ==
    pc = "idle" /\ \E y \in Horizons : get_stock_returns("get_sp500_returns", y)

get_us_total_market_returns ==
    pc = "idle" /\ \E y \in Horizons : get_stock_returns("get_us_total_market_returns", y)

get_global_market_returns ==
    pc = "idle" /\ \E y \in Horizons : get_stock_returns("get_global_market_returns", y)

\* get_inflation_data with no client: lines 94-96
InflationNoKey(y) ==
    /\ ~fred
    /\ facade' = "get_inflation_data" /\ years' = y
    /\ requests' = <<>>
    /\ hist' = <<>>
    /\ ReturnFallback("get_inflation_data", y)
    /\ UNCHANGED <<now, fred>>

\* get_inflation_data up to fred.get_series(...)
InflationFetch(y) ==
    /\ fred
    /\ ~StartDateRaises(now, y * 365 + 365)
    /\ facade' = "get_inflation_data" /\ years' = y
    /\ requests' = <<"CPIAUCSL">>
    /\ pc' = "fetching"
    /\ hist' = <<>>
    /\ UNCHANGED <<now, fred, path, result>>

\* get_inflation_data when line 101 raises
InflationWindowError(y) ==
    /\ fred
    /\ StartDateRaises(now, y * 365 + 365)
    /\ facade' = "get_inflation_data" /\ years' = y
    /\ requests' = <<>>
    /\ hist' = <<>>
    /\ ReturnFallback("get_inflation_data", y)
    /\ UNCHANGED <<now, fred>>

\* get_inflation_data(years), which is get_inflation_data_from_fred(years)
get_inflation_data ==
    /\ pc = "idle"
    /\ \E y \in Horizons :
          InflationNoKey(y) \/ InflationFetch(y) \/ InflationWindowError(y)

\* the handler as it would be if it asked the provider once more
ProviderRaisesRetried ==
    /\ pc = "fetching"
    /\ requests' = Append(requests, requests[1])
    /\ ReturnFallback(facade, years)
    /\ UNCHANGED <<now, fred, facade, years, hist>>

\* the provider call raises (network, authentication, rate limit, parsing)
ProviderRaises ==
    /\ pc = "fetching"
    /\ ReturnFallback(facade, years)
    /\ UNCHANGED <<now, fred, facade, years, requests, hist>>

\* stock.history(...) returns a series: lines 35-66
HistoryReturns ==
    /\ pc = "fetching"
    /\ facade \in EquityFacades
    /\ \E s \in PriceSeries :
          /\ hist' = Dated(s, 1, now)
          /\ ReturnLiveOrFallback(facade, years, StockLive(hist'))
    /\ UNCHANGED <<now, fred, facade, years, requests>>

\* fred.get_series(...) returns a series: lines 105-136
GetSeriesReturns ==
    /\ pc = "fetching"
    /\ facade = "get_inflation_data"
    /\ \E s \in CpiSeries :
          /\ hist' = Dated(s, 2, now)
          /\ ReturnLiveOrFallback(facade, years, FredLive(hist'))
    /\ UNCHANGED <<now, fred, facade, years, requests>>

\* the caller has the result and the call's frame is gone; the next call may begin
CallerTakesResult ==
    /\ pc = "returned"
    /\ pc' = "idle"
    /\ facade' = "none" /\ years' = 0
    /\ requests' = <<>>
    /\ hist' = <<>>
    /\ path' = "none"
    /\ result' = NoResult
    /\ UNCHANGED <<now, fred>>

Next ==
    \/ get_sp500_returns
    \/ get_us_total_market_returns
    \/ get_global_market_returns
    \/ get_inflation_data
    \/ ProviderRaises
    \/ HistoryReturns
    \/ GetSeriesReturns
    \/ CallerTakesResult

Spec == Init /\ [][Next]_vars

(***************************************************************************)
(* What the properties are stated with.                                    *)
(***************************************************************************)
Done == pc = "returned"

IsEquity == facade \in EquityFacades

\* the table of the facade's dataset
TableOf(f) == IF f \in EquityFacades THEN sample_returns ELSE historical_inflation

\* the rates the returned values were compounded from
RatesUsed ==
    IF path = "live"
    THEN IF IsEquity THEN annual_returns(hist) ELSE inflation_rates(hist)
    ELSE TableRates(TableOf(facade), TableYears(TableOf(facade), now - years, now))

AllFinite(rates) == \A i \in 1..Len(rates) : rates[i].k = "fin"

RECURSIVE ProdNum(_, _)
RECURSIVE ProdDen(_, _)
\* numerator and denominator of the product of (1 + rates[k]/100) over k <= i
ProdNum(rates, i) ==
    IF i = 0 THEN BigOne ELSE BigMul(ProdNum(rates, i - 1), 100 * rates[i].d + rates[i].n)
ProdDen(rates, i) ==
    IF i = 0 THEN BigOne ELSE BigMul(ProdDen(rates, i - 1), 100 * rates[i].d)

\* q/10000 is n/d rounded to 4 decimals: no multiple of 1/10000 is nearer, q even on a tie
IsNearest(q, n, d) ==
    LET t  == BigMul(n, 20000)
        hi == BigCmp(t, BigMul(d, 2 * q + 1))
        lo == IF q = 0 THEN 1 ELSE BigCmp(t, BigMul(d, 2 * q - 1))
    IN  q >= 0 /\ hi <= 0 /\ lo >= 0 /\ ((hi = 0 \/ lo = 0) => q % 2 = 0)

\* values are the roundings of the exact cumulative products of the rates, in order
RoundedProducts(values, rates) ==
    /\ Len(values) = Len(rates) + 1
    /\ \A i \in 0..Len(rates) :
          /\ values[i + 1].k = "fin"
          /\ IsNearest(values[i + 1].q, ProdNum(rates, i), ProdDen(rates, i))

\* the dates after the anchor
RatedYears(dates) == IF dates = <<>> THEN <<>> ELSE Tail(dates)

Ascending(ys) == \A i \in 1..(Len(ys) - 1) : ys[i] < ys[i + 1]

(***************************************************************************)
(* C1.  Whatever the horizon, the credential and the provider's outcome, a *)
(* facade call ends by returning a {dates, values} result: what the facade *)
(* hands its caller is never an exception.                                 *)
(***************************************************************************)
C1_NoErrorEscapes ==
    Done => /\ result.exc = "none"
            /\ result.dates \in Seq(Int)
            /\ \A i \in 1..Len(result.values) :
                  result.values[i].k \in {"fin", "inf", "nan"}

\* the inflation facade fell back after the provider answered with a series of one year
C1_Witness ==
    /\ Done /\ facade = "get_inflation_data"
    /\ hist # <<>> /\ path = "fallback" /\ result.dates # <<>>

(***************************************************************************)
(* C2.  Every result has as many dates as values; with no table year in    *)
(* the window both lists are empty.                                        *)
(***************************************************************************)
C2_SameLength == Done => Len(result.dates) = Len(result.values)

(***************************************************************************)
(* C3.  A returned series starts at 1.0, and its first date is the anchor, *)
(* one less than the first year that has a rate.                           *)
(***************************************************************************)
C3_Anchor ==
    Done =>
       /\ result.values # <<>> => result.values[1] = Rnd("fin", 10000)
       /\ result.dates # <<>> =>
             /\ Len(result.dates) >= 2
             /\ result.dates[1] = result.dates[2] - 1

\* a LIVE series of two rated years
C3_Witness == Done /\ path = "live" /\ Len(result.dates) = 3

C5_RoundedOnce ==
    Done /\ Len(RatesUsed) >= 1 /\ AllFinite(RatesUsed) =>
       RoundedProducts(result.values, RatesUsed)

\* some returned value is not its exact product: the rounding did something
C5_Witness ==
    /\ Done /\ Len(RatesUsed) >= 2 /\ AllFinite(RatesUsed)
    /\ \E i \in 1..Len(RatesUsed) :
          /\ result.values[i + 1].k = "fin"
          /\ BigCmp(BigMul(ProdNum(RatesUsed, i), 10000),
                    BigMul(ProdDen(RatesUsed, i), result.values[i + 1].q)) # 0

C7_OneSource ==
    Done =>
       \/ /\ path = "live"
          /\ requests # <<>> /\ hist # <<>>
          /\ {result.dates[i] : i \in 2..Len(result.dates)} \subseteq RowYears(hist)
          /\ result.dates[1] = result.dates[2] - 1
          /\ result.values = Compound(RatesUsed)
       \/ /\ path = "fallback"
          /\ result = Fallback(facade, years, now)

\* LIVE raised after the provider's series arrived, and the table has rows to give
C7_Witness ==
    /\ Done /\ path = "fallback" /\ hist # <<>>
    /\ Len(result.dates) >= 2

(***************************************************************************)
(* C8.  The equity aggregator gives one rate per calendar year of the      *)
(* series, in ascending year order, each (last - first) / first * 100 of   *)
(* the year's earliest- and latest-timestamped prices.                     *)
(***************************************************************************)
Earliest(h, e, year) == \A j \in RowsOf(h, year) : h[e].day <= h[j].day
Latest(h, l, year) == \A j \in RowsOf(h, year) : h[j].day <= h[l].day

\* rate is (last - first) / first * 100; with first = 0 that is not a finite number
IsPctChange(rate, first, last) ==
    IF first = 0 THEN rate.k # "fin"
    ELSE rate.k = "fin" /\ rate.n * first = (last - first) * 100 * rate.d

C8_AnnualRates ==
    Done /\ path = "live" /\ IsEquity =>
       LET ys == RatedYears(result.dates)
           rates == annual_returns(hist)
       IN  /\ Len(rates) = Len(ys)
           /\ {ys[i] : i \in 1..Len(ys)} = RowYears(hist)
           /\ Ascending(ys)
           /\ result.values = Compound(rates)
           /\ \A i \in 1..Len(ys) :
                 \E e \in RowsOf(hist, ys[i]), l \in RowsOf(hist, ys[i]) :
                    /\ Earliest(hist, e, ys[i])
                    /\ Latest(hist, l, ys[i])
                    /\ IsPctChange(rates[i], hist[e].v, hist[l].v)

\* a year whose price rose from its first day to its last
C8_Witness ==
    /\ Done /\ path = "live" /\ IsEquity
    /\ \E i \in 1..Len(hist), j \in 1..Len(hist) :
          /\ hist[i].year = hist[j].year /\ hist[i].day < hist[j].day
          /\ 0 < hist[i].v /\ hist[i].v < hist[j].v

(***************************************************************************)
(* C9.  A calendar year with fewer than 2 observations never has a rate in *)
(* a LIVE equity result.                                                   *)
(***************************************************************************)
C9_TwoObservations ==
    Done /\ path = "live" /\ IsEquity =>
       \A i \in 2..Len(result.dates) :
          Cardinality(RowsOf(hist, result.dates[i])) >= 2

(***************************************************************************)
(* C10.  If a year's mean CPI used as the baseline of the next year's rate *)
(* is zero, the inflation facade returns the fallback series.              *)
(***************************************************************************)
ZeroBaseline(cpi_data) ==
    LET index == annual_cpi_index(cpi_data)
    IN  \E i \in 1..(Len(index) - 1) : AnnualMean(cpi_data, index[i]).n = 0

C10_ZeroBaselineFallsBack ==
    Done /\ facade = "get_inflation_data" /\ hist # <<>> /\ ZeroBaseline(hist) =>
       /\ path = "fallback"
       /\ result = get_fallback_inflation_data(years, now)

====
